---- MODULE Spec2Model ----
(***************************************************************************)
(* filter_detections of tf_retinanet/layers/filter_detections.py as a      *)
(* state machine: score thresholding, optional greedy non-maximum          *)
(* suppression (per class or on the best class), global top-k, gather and  *)
(* padding to max_detections rows.                                         *)
(*                                                                         *)
(* Scores are integers (a fixed-point scale of the floats), boxes are      *)
(* rows <<x1, y1, x2, y2>> of integers, nms_threshold is the rational      *)
(* num/den (den > 0) and score_threshold is a number or NaN.  Box indices  *)
(* and labels are 0-based as in the source; TLA+ sequences are 1-based, so *)
(* element i of a tensor t is t[i + 1].                                    *)
(***************************************************************************)
EXTENDS Integers, Sequences, FiniteSets, TLC

(* ------------------------------ bounds -------------------------------- *)

\* Largest number of input boxes N.
MaxBoxes == 2
\* Largest max_detections.
MaxDet == 2

\* Numbers of classes C, score values, boxes and thresholds the inputs are
\* drawn from.
ClassCounts == {1, 2}
ScoreValues == {1, 2, 3}
\* IoU: equal boxes 1, first/second 1/2, first/third 2/3, second/third 3/4.
BoxPool == { <<0, 0, 2, 2>>, <<0, 0, 2, 4>>, <<0, 0, 2, 3>> }
ScoreThresholds == { [nan |-> FALSE, val |-> 1] }
NotANumber == [nan |-> TRUE, val |-> 0]
NmsThresholds == { [num |-> 1, den |-> 2] }
BadNmsThresholds == { [num |-> -1, den |-> 2], [num |-> 3, den |-> 2] }

VARIABLES
    boxes,                  \* argument: (N, 4)
    box_width,              \* boxes.shape[1]
    classification,         \* argument: (N, C)
    num_classes,            \* classification.shape[1]
    other,                  \* argument: list of (N,) tensors
    class_specific_filter,  \* argument
    nms,                    \* argument
    score_threshold,        \* argument
    max_detections,         \* argument
    nms_threshold,          \* argument
    pc,                     \* position in filter_detections
    c,                      \* loop variable of line 55
    all_indices,            \* line 53
    indices,                \* lines 61/65: rows <<box index, label>>
    top_indices,            \* line 70
    box_indices,            \* line 73 (the source rebinds indices)
    out_boxes,              \* lines 74/80 (the source rebinds boxes)
    out_scores,             \* lines 70/81 (the source rebinds scores)
    out_labels,             \* lines 75/82
    out_other,              \* lines 76/84
    raised                  \* "none", or the error the call ended with

vars == << boxes, box_width, classification, num_classes, other, class_specific_filter,
           nms, score_threshold, max_detections, nms_threshold, pc, c,
           all_indices, indices, top_indices, box_indices, out_boxes,
           out_scores, out_labels, out_other, raised >>

args == << boxes, box_width, classification, num_classes, other, class_specific_filter,
           nms, score_threshold, max_detections, nms_threshold >>

(* --------------------------- tensor helpers --------------------------- *)

Minimum(a, b) == IF a < b THEN a ELSE b

Maximum(a, b) == IF a > b THEN a ELSE b

\* Mutant of Greater: the threshold test lets a score equal to it pass.
GreaterOrEqual(x, t) == IF t.nan THEN FALSE ELSE x >= t.val

\* tf.keras.backend.greater: a comparison with NaN is False.
Greater(x, t) == IF t.nan THEN FALSE ELSE x > t.val

\* tf.where on a vector: the positions that pass, in increasing order.
Where(scores) ==
    SelectSeq([i \in 1..Len(scores) |-> i - 1],
              LAMBDA i : Greater(scores[i + 1], score_threshold))

\* gather / gather_nd along the first axis.
Gather(params, ix) == [k \in 1..Len(ix) |-> params[ix[k] + 1]]

\* classification[:, cls]
Column(cls) == [b \in 1..Len(classification) |-> classification[b][cls + 1]]

\* cls * tf.ones((num_boxes,))
ClassLabels(cls) == [b \in 1..Len(classification) |-> cls]

RowMax(row) == CHOOSE m \in {row[k] : k \in 1..Len(row)} :
                   \A k \in 1..Len(row) : row[k] <= m

\* argmax: the first position of the maximum.
RowArgMax(row) ==
    (CHOOSE k \in 1..Len(row) :
        /\ row[k] = RowMax(row)
        /\ \A j \in 1..(k - 1) : row[j] # row[k]) - 1

\* tf.keras.backend.max(classification, axis = 1)
MaxScores == [b \in 1..Len(classification) |-> RowMax(classification[b])]

\* Mutant of ArgMaxLabels: the label of the smallest score of each row.
ArgMinLabels ==
    [b \in 1..Len(classification) |->
        (CHOOSE k \in 1..Len(classification[b]) :
            \A j \in 1..Len(classification[b]) :
                classification[b][k] <= classification[b][j]) - 1]

\* tf.keras.backend.argmax(classification, axis = 1)
ArgMaxLabels == [b \in 1..Len(classification) |-> RowArgMax(classification[b])]

(* ----------------------- non-maximum suppression ---------------------- *)

BoxArea(b) ==
    (Maximum(b[1], b[3]) - Minimum(b[1], b[3]))
  * (Maximum(b[2], b[4]) - Minimum(b[2], b[4]))

IntersectionArea(a, b) ==
    Maximum(Minimum(Maximum(a[1], a[3]), Maximum(b[1], b[3]))
          - Maximum(Minimum(a[1], a[3]), Minimum(b[1], b[3])), 0)
  * Maximum(Minimum(Maximum(a[2], a[4]), Maximum(b[2], b[4]))
          - Maximum(Minimum(a[2], a[4]), Minimum(b[2], b[4])), 0)

\* IoU(a, b) > thr, for thr = num/den; a box without area has IoU 0.
IoUGreater(a, b, thr) ==
    IF BoxArea(a) <= 0 \/ BoxArea(b) <= 0
    THEN 0 > thr.num
    ELSE IntersectionArea(a, b) * thr.den
           > thr.num * (BoxArea(a) + BoxArea(b) - IntersectionArea(a, b))

\* Positions 0..n-1 by descending score, the lower position first on a tie.
RECURSIVE ArgSortDescending(_, _)
ArgSortDescending(scores, remaining) ==
    IF remaining = {} THEN << >>
    ELSE LET best == CHOOSE i \in remaining : \A j \in remaining :
                        \/ scores[i + 1] > scores[j + 1]
                        \/ scores[i + 1] = scores[j + 1] /\ i <= j
         IN  << best >> \o ArgSortDescending(scores, remaining \ {best})

RECURSIVE GreedySelect(_, _, _, _, _)
GreedySelect(order, bxs, selected, max_output_size, iou_threshold) ==
    IF order = << >> \/ Len(selected) >= max_output_size THEN selected
    ELSE LET i == Head(order)
             keep == \A k \in 1..Len(selected) :
                        ~IoUGreater(bxs[i + 1], bxs[selected[k] + 1], iou_threshold)
         IN  GreedySelect(Tail(order), bxs,
                          IF keep THEN Append(selected, i) ELSE selected,
                          max_output_size, iou_threshold)

\* Mutant of NonMaxSuppression: nothing is suppressed.
NmsKeepsAll(bxs, scores, max_output_size, iou_threshold) ==
    SubSeq(ArgSortDescending(scores, 0..(Len(scores) - 1)), 1,
           IF max_output_size < Len(scores) THEN max_output_size ELSE Len(scores))

\* Mutant of NonMaxSuppression: the boxes are visited in index order instead
\* of descending score order.
NmsInIndexOrder(bxs, scores, max_output_size, iou_threshold) ==
    GreedySelect([i \in 1..Len(scores) |-> i - 1], bxs, << >>,
                 max_output_size, iou_threshold)

\* tf.image.non_max_suppression: greedy, in descending score order, at most
\* max_output_size selections.
NonMaxSuppression(bxs, scores, max_output_size, iou_threshold) ==
    GreedySelect(ArgSortDescending(scores, 0..(Len(scores) - 1)), bxs, << >>,
                 max_output_size, iou_threshold)

\* The suppression op rejects an IoU threshold outside [0, 1] and a negative
\* output size when it runs.
NmsRejects(max_output_size, iou_threshold) ==
    \/ max_output_size < 0
    \/ iou_threshold.num < 0
    \/ iou_threshold.num > iou_threshold.den

\* The suppression op takes boxes of shape (num_boxes, 4) only.
NmsRejectsBoxes(width) == width # 4

\* Whether every position of ix lies inside tensor t.
InRange(t, ix) == \A k \in 1..Len(ix) : ix[k] + 1 \in 1..Len(t)

\* gather / gather_nd where a position outside the tensor yields zeros (the
\* GPU kernel; the CPU kernel raises instead).
GatherOrZero(t, ix, zero) ==
    [k \in 1..Len(ix) |-> IF ix[k] + 1 \in 1..Len(t) THEN t[ix[k] + 1] ELSE zero]

\* A row of boxes filled with v.
BoxRow(v) == [k \in 1..box_width |-> v]

(* -------------------------- _filter_detections ------------------------ *)

\* The inner function of lines 32-50; max_output_size is the max_detections
\* it closes over.
_filter_detections(scores, labels, max_output_size) ==
    LET thresholded == Where(scores)
        filtered_boxes == GatherOrZero(boxes, thresholded, BoxRow(0))
        filtered_scores == Gather(scores, thresholded)
        nms_indices == NonMaxSuppression(filtered_boxes, filtered_scores,
                                         max_output_size, nms_threshold)
        kept == IF nms THEN Gather(thresholded, nms_indices) ELSE thresholded
    IN  [k \in 1..Len(kept) |-> << kept[k], labels[kept[k] + 1] >>]

\* Whether the suppression branch (lines 36-44) ends in an error for these
\* scores: the gather of line 37 at a position outside boxes (on CPU), or
\* the suppression op rejecting its arguments.
SuppressionRaises(scores, device) ==
    /\ nms
    /\ \/ device = "CPU" /\ ~InRange(boxes, Where(scores))
       \/ NmsRejectsBoxes(box_width)
       \/ NmsRejects(max_detections, nms_threshold)

(* ------------------------------ top-k, pad ---------------------------- *)

\* gather_nd(classification, indices): the score of each <<box, label>> row.
CandidateScores(ix) ==
    [k \in 1..Len(ix) |-> classification[ix[k][1] + 1][ix[k][2] + 1]]

\* indices[:, 1]
CandidateLabels(ix) == [k \in 1..Len(ix) |-> ix[k][2]]

\* Mutant of TopKCount: k is not capped by max_detections.
TopKCountUncapped(n) == n

\* The k of top_k (line 70).
TopKCount(n) == Minimum(max_detections, n)

\* Mutant of TopKIndices: the first k positions, unsorted.
FirstKIndices(scores, k) == [j \in 1..k |-> j - 1]

\* tf.nn.top_k: the positions of the k largest, descending, the lower
\* position first on a tie.
TopKIndices(scores, k) ==
    SubSeq(ArgSortDescending(scores, 0..(Len(scores) - 1)), 1, k)

\* Mutant of BoxIndices: the box indices of the first candidates, not of the
\* ranked ones.
BoxIndicesUnranked(ix, top) == [j \in 1..Len(top) |-> ix[j][1]]

\* Line 73: the box index of each selected candidate.
BoxIndices(ix, top) == Gather([j \in 1..Len(ix) |-> ix[j][1]], top)

\* Lines 68-76 for the candidate rows ix.
TopKSelection(ix) ==
    LET scores == CandidateScores(ix)
        top == TopKIndices(scores, TopKCount(Len(scores)))
        bix == BoxIndices(ix, top)
    IN  [ top_indices |-> top,
          scores |-> Gather(scores, top),
          indices |-> bix,
          boxes |-> GatherOrZero(boxes, bix, BoxRow(0)),
          labels |-> Gather(CandidateLabels(ix), top),
          other |-> [o \in 1..Len(other) |-> GatherOrZero(other[o], bix, 0)] ]

\* Line 79.
PadSize(n) == Maximum(0, max_detections - n)

\* tf.pad along the first axis with a constant.
Pad(t, pad_size, fill) == t \o [k \in 1..pad_size |-> fill]

\* Mutant of PaddedOutputs: the outputs are padded with zeros.
ZeroPaddedOutputs(bxs, scores, labels, others) ==
    LET pad_size == Maximum(0, max_detections - Len(scores))
    IN  [ boxes |-> bxs \o [k \in 1..pad_size |-> BoxRow(0)],
          scores |-> scores \o [k \in 1..pad_size |-> 0],
          labels |-> labels \o [k \in 1..pad_size |-> 0],
          other |-> [o \in 1..Len(others) |->
                        others[o] \o [k \in 1..pad_size |-> 0]] ]

\* Lines 79-84: boxes, scores, labels and other_, padded with -1.
PaddedOutputs(bxs, scores, labels, others) ==
    LET pad_size == PadSize(Len(scores))
    IN  [ boxes |-> Pad(bxs, pad_size, BoxRow(-1)),
          scores |-> Pad(scores, pad_size, -1),
          labels |-> Pad(labels, pad_size, -1),
          other |-> [o \in 1..Len(others) |-> Pad(others[o], pad_size, -1)] ]

\* boxes.set_shape([max_detections, 4]) (line 87) raises when the padded
\* boxes are not 4 wide; the other set_shape calls restate the padded shapes.
SetShapeRejects(width) == width # 4

(* ------------------------------- actions ------------------------------ *)

InitLocals ==
    /\ pc = "filter"
    /\ c = 0
    /\ all_indices = << >>
    /\ indices = << >>
    /\ top_indices = << >>
    /\ box_indices = << >>
    /\ out_boxes = << >>
    /\ out_scores = << >>
    /\ out_labels = << >>
    /\ out_other = << >>
    /\ raised = "none"

\* Two auxiliary tensors of n rows; row b of each names the box it came with.
Tags(n, base) == [b \in 1..n |-> base + b - 1]

\* Valid calls: N x 4 boxes, N x C scores, auxiliary tensors of N rows,
\* max_detections >= 1, nms_threshold in [0, 1].
Init ==
    /\ \E n \in 0..MaxBoxes, nc \in ClassCounts :
          /\ boxes \in [1..n -> BoxPool]
          /\ box_width = 4
          /\ classification \in [1..n -> [1..nc -> ScoreValues]]
          /\ num_classes = nc
          /\ other = << Tags(n, 10), Tags(n, 20) >>
    /\ class_specific_filter \in BOOLEAN
    /\ nms \in BOOLEAN
    /\ score_threshold \in ScoreThresholds
    /\ max_detections \in 1..MaxDet
    /\ nms_threshold \in NmsThresholds
    /\ InitLocals

\* A fixed scene of n boxes of the given width.  At width 4 the IoU is 2/3
\* for first/second, 1/2 for first/third and 3/4 for second/third.
SceneBoxes(n, width) ==
    [b \in 1..n |-> SubSeq(<< 0, 0, 2, 1 + b, b >>, 1, width)]

\* Calls with any configuration, valid or not: max_detections from -1,
\* nms_threshold inside and outside [0, 1], score_threshold a number or NaN.
InitAnyConfiguration ==
    /\ \E n \in 0..MaxBoxes, nc \in ClassCounts :
          /\ boxes = SceneBoxes(n, 4)
          /\ box_width = 4
          /\ classification \in [1..n -> [1..nc -> ScoreValues]]
          /\ num_classes = nc
          /\ other = << Tags(n, 10), Tags(n, 20) >>
    /\ class_specific_filter \in BOOLEAN
    /\ nms \in BOOLEAN
    /\ score_threshold \in ScoreThresholds \cup {NotANumber}
    /\ max_detections \in -1..MaxDet
    /\ nms_threshold \in NmsThresholds \cup BadNmsThresholds
    /\ InitLocals

\* Calls with a valid configuration and any shapes: boxes of N rows that
\* are 3, 4 or 5 wide, a score matrix of N - 1, N or N + 1 rows and one
\* auxiliary tensor of N - 1, N or N + 1 rows.
InitAnyShape ==
    /\ \E n \in 0..MaxBoxes, nc \in ClassCounts :
          /\ box_width \in {3, 4, 5}
          /\ boxes = SceneBoxes(n, box_width)
          /\ \E r \in {n - 1, n, n + 1} \cap Nat :
                classification \in [1..r -> [1..nc -> ScoreValues]]
          /\ num_classes = nc
          /\ \E m \in {n - 1, n, n + 1} \cap Nat : other = << Tags(m, 10) >>
    /\ class_specific_filter \in BOOLEAN
    /\ nms \in BOOLEAN
    /\ score_threshold \in ScoreThresholds
    /\ max_detections \in 1..MaxDet
    /\ nms_threshold \in NmsThresholds
    /\ InitLocals

Raise(error) ==
    /\ raised' = error
    /\ pc' = "done"

\* Lines 55-58: one iteration of the per-class loop.  Each op runs on CPU or
\* on GPU, which differ where a gather reaches outside its tensor.
PerClassFilter ==
    /\ pc = "filter"
    /\ class_specific_filter
    /\ c < num_classes
    /\ \E device \in {"CPU", "GPU"} :
          IF SuppressionRaises(Column(c), device)
          THEN /\ Raise("InvalidArgumentError")
               /\ UNCHANGED << c, all_indices >>
          ELSE /\ all_indices' = Append(all_indices,
                     _filter_detections(Column(c), ClassLabels(c), max_detections))
               /\ c' = c + 1
               /\ UNCHANGED << pc, raised >>
    /\ UNCHANGED << args, indices, top_indices, box_indices, out_boxes,
                    out_scores, out_labels, out_other >>

RECURSIVE Concatenate(_)
Concatenate(parts) ==
    IF parts = << >> THEN << >> ELSE Head(parts) \o Concatenate(Tail(parts))

\* Line 61.
ConcatenateIndices ==
    /\ pc = "filter"
    /\ class_specific_filter
    /\ c = num_classes
    /\ indices' = Concatenate(all_indices)
    /\ pc' = "topk"
    /\ UNCHANGED << args, c, all_indices, top_indices, box_indices, out_boxes,
                    out_scores, out_labels, out_other, raised >>

\* Lines 63-65.
BestClassFilter ==
    /\ pc = "filter"
    /\ ~class_specific_filter
    /\ \E device \in {"CPU", "GPU"} :
          IF SuppressionRaises(MaxScores, device)
          THEN /\ Raise("InvalidArgumentError")
               /\ UNCHANGED indices
          ELSE /\ indices' = _filter_detections(MaxScores, ArgMaxLabels,
                                                max_detections)
               /\ pc' = "topk"
               /\ UNCHANGED raised
    /\ UNCHANGED << args, c, all_indices, top_indices, box_indices, out_boxes,
                    out_scores, out_labels, out_other >>

\* Lines 67-76.  top_k rejects a negative k.  A gather from boxes or from an
\* auxiliary tensor at a position outside it raises on CPU and yields 0 on
\* GPU.
SelectTopK ==
    /\ pc = "topk"
    /\ IF TopKCount(Len(indices)) < 0
       THEN /\ Raise("InvalidArgumentError")
            /\ UNCHANGED << top_indices, box_indices, out_boxes, out_scores,
                            out_labels, out_other >>
       ELSE LET sel == TopKSelection(indices)
            IN  \E device \in {"CPU", "GPU"} :
                  IF /\ device = "CPU"
                     /\ \/ ~InRange(boxes, sel.indices)
                        \/ \E o \in 1..Len(other) : ~InRange(other[o], sel.indices)
                  THEN /\ Raise("InvalidArgumentError")
                       /\ UNCHANGED << top_indices, box_indices, out_boxes,
                                       out_scores, out_labels, out_other >>
                  ELSE /\ top_indices' = sel.top_indices
                       /\ out_scores' = sel.scores
                       /\ box_indices' = sel.indices
                       /\ out_boxes' = sel.boxes
                       /\ out_labels' = sel.labels
                       /\ out_other' = sel.other
                       /\ pc' = "pad"
                       /\ UNCHANGED raised
    /\ UNCHANGED << args, c, all_indices, indices >>

\* Lines 78-93: pad, then set the shapes and return, or raise where
\* set_shape rejects the padded boxes.
PadOutputs ==
    /\ pc = "pad"
    /\ LET out == PaddedOutputs(out_boxes, out_scores, out_labels, out_other)
       IN  /\ out_boxes' = out.boxes
           /\ out_scores' = out.scores
           /\ out_labels' = out.labels
           /\ out_other' = out.other
    /\ raised' = IF SetShapeRejects(box_width) THEN "ValueError" ELSE raised
    /\ pc' = "done"
    /\ UNCHANGED << args, c, all_indices, indices, top_indices, box_indices >>

Next ==
    \/ PerClassFilter
    \/ ConcatenateIndices
    \/ BestClassFilter
    \/ SelectTopK
    \/ PadOutputs

Spec == Init /\ [][Next]_vars

SpecAnyConfiguration == InitAnyConfiguration /\ [][Next]_vars

SpecAnyShape == InitAnyShape /\ [][Next]_vars

(* ------------------------ vocabulary of the claims -------------------- *)

\* The call returned its list of tensors.
Returned == pc = "done" /\ raised = "none"

NumBoxes == Len(boxes)

\* The non-padded output rows are rows 1..NumReal.
NumReal == Len(top_indices)

SentinelRow(i) ==
    /\ i <= Len(out_boxes) /\ out_boxes[i] = << -1, -1, -1, -1 >>
    /\ i <= Len(out_scores) /\ out_scores[i] = -1
    /\ i <= Len(out_labels) /\ out_labels[i] = -1
    /\ \A o \in 1..Len(other) :
          /\ o <= Len(out_other)
          /\ i <= Len(out_other[o])
          /\ out_other[o][i] = -1

PassesThreshold(score) == ~score_threshold.nan /\ score > score_threshold.val

\* The label of box b on the best-class path: the first class with the
\* largest score of the row.
IsBestClass(b, cls) ==
    /\ \A k \in 0..(num_classes - 1) :
          classification[b + 1][k + 1] <= classification[b + 1][cls + 1]
    /\ \A k \in 0..(cls - 1) :
          classification[b + 1][k + 1] < classification[b + 1][cls + 1]

\* The thresholded candidate set, as <<box, label>> pairs.
ThresholdedCandidates ==
    { p \in (0..(NumBoxes - 1)) \X (0..(num_classes - 1)) :
        /\ PassesThreshold(classification[p[1] + 1][p[2] + 1])
        /\ class_specific_filter \/ IsBestClass(p[1], p[2]) }

OutputPairs == { << box_indices[i], out_labels[i] >> : i \in 1..NumReal }

(* -------------------------------- claims ------------------------------ *)

\* C1: every returned tensor (boxes, scores, labels and each auxiliary
\* tensor) has exactly max_detections rows, whatever N, C, the flags and the
\* number of surviving candidates.
C1_FixedWidth ==
    Returned =>
        /\ Len(out_boxes) = max_detections
        /\ Len(out_scores) = max_detections
        /\ Len(out_labels) = max_detections
        /\ Len(out_other) = Len(other)
        /\ \A o \in 1..Len(out_other) : Len(out_other[o]) = max_detections

\* More candidates survive than max_detections and the result is returned.
C1_Witness ==
    /\ Returned
    /\ Len(indices) > max_detections
    /\ Len(out_other[2]) = max_detections

\* C2: with k surviving candidates, output rows k .. max_detections-1 hold
\* -1 in every field; with no boxes, or no score above the threshold, every
\* row does.
C2_Padding ==
    Returned =>
        /\ \A i \in (Len(indices) + 1)..max_detections : SentinelRow(i)
        /\ ( \/ NumBoxes = 0
             \/ \A b \in 1..NumBoxes : \A k \in 1..num_classes :
                    ~PassesThreshold(classification[b][k]) )
           => \A i \in 1..max_detections : SentinelRow(i)

\* One candidate survives of two boxes and the second row is padding.
C2_Witness ==
    /\ Returned
    /\ NumBoxes = 2
    /\ Len(indices) = 1
    /\ max_detections = 2
    /\ out_scores[1] > 1
    /\ SentinelRow(2)

\* C3: with nms, no two distinct non-padded rows of the same label have
\* boxes whose IoU is greater than nms_threshold.
C3_Suppression ==
    (Returned /\ nms) =>
        \A i, j \in 1..NumReal :
            (i # j /\ out_labels[i] = out_labels[j])
                => ~IoUGreater(out_boxes[i], out_boxes[j], nms_threshold)

\* Two boxes pass the threshold under one label and overlap by more than
\* nms_threshold, there is room for both, and the call returns one of them.
C3_Witness ==
    /\ Returned
    /\ nms
    /\ max_detections >= 2
    /\ \E p, q \in ThresholdedCandidates :
          /\ p[1] # q[1]
          /\ p[2] = q[2]
          /\ IoUGreater(boxes[p[1] + 1], boxes[q[1] + 1], nms_threshold)
          /\ p \in OutputPairs
          /\ q \notin OutputPairs

\* C4: without nms the non-padded rows are the thresholded candidate set
\* truncated to its min(max_detections, size) highest-scoring members: every
\* (box, class) pair above the threshold when class_specific_filter, every
\* box whose best score is above it, with its argmax label, otherwise.
C4_PassThrough ==
    (Returned /\ ~nms) =>
        /\ NumReal = Minimum(max_detections, Cardinality(ThresholdedCandidates))
        /\ OutputPairs \subseteq ThresholdedCandidates
        /\ Cardinality(OutputPairs) = NumReal
        /\ \A p \in ThresholdedCandidates \ OutputPairs : \A q \in OutputPairs :
              classification[p[1] + 1][p[2] + 1] <= classification[q[1] + 1][q[2] + 1]
        /\ \A i \in 1..NumReal :
              /\ out_boxes[i] = boxes[box_indices[i] + 1]
              /\ out_scores[i] = classification[box_indices[i] + 1][out_labels[i] + 1]

\* Without nms, a box is returned under two labels beside an equal box, and
\* a candidate is dropped by the truncation.
C4_Witness ==
    /\ Returned
    /\ ~nms
    /\ class_specific_filter
    /\ Cardinality(ThresholdedCandidates) > max_detections
    /\ NumReal = 2
    /\ box_indices[1] = box_indices[2]
    /\ out_labels[1] # out_labels[2]
    /\ NumBoxes = 2
    /\ boxes[1] = boxes[2]

\* C5: the scores of the non-padded rows are non-increasing by row index.
C5_ScoreOrder ==
    Returned =>
        \A i, j \in 1..NumReal : i < j => out_scores[i] >= out_scores[j]

\* The candidates came in ascending score order and are returned descending.
C5_Witness ==
    /\ Returned
    /\ Len(indices) >= 2
    /\ CandidateScores(indices)[1] < CandidateScores(indices)[2]
    /\ NumReal >= 2
    /\ out_scores[1] > out_scores[2]

\* C6: no non-padded row has a score <= score_threshold; its score is the
\* box's largest class score on the best-class path and classification[box,
\* label] on the per-class path.
C6_ThresholdExclusion ==
    Returned =>
        \A i \in 1..NumReal :
            /\ PassesThreshold(out_scores[i])
            /\ out_scores[i] = classification[box_indices[i] + 1][out_labels[i] + 1]
            /\ ~class_specific_filter =>
                  \A k \in 1..num_classes :
                      classification[box_indices[i] + 1][k] <= out_scores[i]

\* On the best-class path a box with a score at the threshold and one above
\* it is returned, and a box with no score above it is left out.
C6_Witness ==
    /\ Returned
    /\ ~class_specific_filter
    /\ NumBoxes = 2
    /\ num_classes = 2
    /\ NumReal = 1
    /\ \E k \in 1..2 :
          ~PassesThreshold(classification[box_indices[1] + 1][k])
    /\ max_detections = 2

\* C7: every non-padded row i comes from one input box b: its box is
\* boxes[b], its score classification[b, label_i] and its row of every
\* auxiliary tensor other[j][b].
C7_Lockstep ==
    Returned =>
        \A i \in 1..NumReal : \E b \in 1..NumBoxes :
            /\ out_boxes[i] = boxes[b]
            /\ out_scores[i] = classification[b][out_labels[i] + 1]
            /\ \A o \in 1..Len(other) : out_other[o][i] = other[o][b]

\* The rows are returned in another order than the boxes came in, and the
\* boxes differ.
C7_Witness ==
    /\ Returned
    /\ NumReal >= 2
    /\ box_indices[1] > box_indices[2]
    /\ out_boxes[1] # out_boxes[2]
    /\ out_other[1][1] > out_other[1][2]

NmsThresholdOutside ==
    nms_threshold.num < 0 \/ nms_threshold.num > nms_threshold.den

InvalidConfiguration ==
    \/ max_detections <= 0
    \/ NmsThresholdOutside
    \/ score_threshold.nan

\* C8 as stated, whenever the error is raised: a call with an invalid
\* configuration (max_detections <= 0, nms_threshold outside [0, 1],
\* score_threshold NaN) ends with an error and returns no result.
C8_RaisesConfigurationError ==
    (InvalidConfiguration /\ pc = "done") => raised # "none"

\* The box array is not N x 4, the score matrix not N x C, or an auxiliary
\* tensor has not N rows, for N the number of boxes.
ShapeMismatch ==
    \/ box_width # 4
    \/ Len(classification) # NumBoxes
    \/ \E o \in 1..Len(other) : Len(other[o]) # NumBoxes

\* C9 as stated, whenever the error is raised: a call whose box array is not
\* N x 4, whose score matrix is not N x C or with an auxiliary tensor whose
\* leading dimension differs from N ends with an error and returns no
\* result.
C9_RaisesShapeMismatchError ==
    (ShapeMismatch /\ pc = "done") => raised # "none"

\* The candidate rows of every class when each suppression call may select
\* up to max_output_size boxes.
RECURSIVE PerClassIndices(_, _)
PerClassIndices(cls, max_output_size) ==
    IF cls >= num_classes THEN << >>
    ELSE _filter_detections(Column(cls), ClassLabels(cls), max_output_size)
            \o PerClassIndices(cls + 1, max_output_size)

\* The result when no suppression call is capped (a call never selects more
\* than N boxes) and only the global top-k enforces max_detections.
UncappedOutputs ==
    LET sel == TopKSelection(PerClassIndices(0, NumBoxes))
    IN  PaddedOutputs(sel.boxes, sel.scores, sel.labels, sel.other)

\* C10: with nms and class_specific_filter, the result with each per-class
\* suppression call capped at max_detections selections is the result with
\* the calls uncapped: same rows, same order, equal scores included.
C10_PerClassCapRedundant ==
    (Returned /\ nms /\ class_specific_filter) =>
        /\ out_boxes = UncappedOutputs.boxes
        /\ out_scores = UncappedOutputs.scores
        /\ out_labels = UncappedOutputs.labels
        /\ out_other = UncappedOutputs.other

\* The cap cut a suppression call short: the uncapped calls select more
\* rows than the capped ones did, among boxes of equal score.
C10_Witness ==
    /\ Returned
    /\ nms
    /\ class_specific_filter
    /\ Len(PerClassIndices(0, NumBoxes)) > Len(indices)
    /\ NumBoxes = 2
    /\ classification[1][1] = classification[2][1]

====
